---- MODULE Spec2Model ----
(***************************************************************************)
(* A model of assemblyline_core/scaler/controllers/docker_ctl.py: the      *)
(* DockerController that keeps, for every service, a number of containers  *)
(* alive on one docker host.  The docker host is the set `containers`; the *)
(* controller's own fields are `profiles`, `prefix` and `labels`; every    *)
(* call of a controller method is a record of `calls` that walks through   *)
(* the statements of the method, one docker API call per step.             *)
(***************************************************************************)
EXTENDS Integers, Sequences, FiniteSets, TLC

VARIABLES
    containers,   \* the containers on the docker host (a set of records)
    profiles,     \* DockerController._profiles: service name -> ServiceProfile
    prefix,       \* DockerController._prefix
    labels,       \* DockerController._labels: {} is None, {d} is the dict d
    serial,       \* TRUE: the caller makes one call at a time (the scaler's loop)
    config,       \* DockerController._info and the two overallocation factors
    signatures,   \* SignatureClient.datastore.signature: id -> stored signature
    calls         \* per caller: the method call it is making, or made last

vars == <<containers, profiles, prefix, labels, serial, config, signatures, calls>>

----------------------------------------------------------------------------
(* Bounds of the model. *)

MaxContainers == 3      \* containers on the host at one time
MaxTarget == 3          \* largest target a caller asks for
NumCallers == 2         \* threads that call into the controller

Callers == 1..NumCallers
Services == {"a", "b"}
Prefixes == {"", "al"}
\* The label maps the controller may be constructed with; {} is labels=None.
LabelArgs == { {}, {[component |-> "x", owner |-> "al"]} }

----------------------------------------------------------------------------
(* The docker host. *)

LiveStatuses == {"restarting", "running"}
DownStatuses == {"created", "removing", "paused", "exited", "dead"}
Statuses == LiveStatuses \cup DownStatuses \cup {"unknown-x"}
\* What `docker container prune` removes: the stopped containers.
StoppedStatuses == {"created", "exited", "dead"}
\* The statuses containers are seen to take while the controller scales:
\* both live ones, a stopped one that prune removes, and one that is
\* neither live nor removed by prune.
ScalingStatuses == {"running", "restarting", "exited", "unknown-x"}

Min(a, b) == IF a < b THEN a ELSE b

\* All the orders in which a listing may return the set S.
Listings(S) ==
    {l \in [1..Cardinality(S) -> S] : \A i, j \in 1..Cardinality(S) : l[i] = l[j] => i = j}

HasLabel(c, k, v) == k \in DOMAIN c.labels /\ c.labels[k] = v

\* the listing without its label filter: the containers of every service
ListAnyLabel(service_name) == containers

\* client.containers.list(filters={'label': 'component=<service_name>'}).
\* Which statuses docker leaves out of a listing without all=True is the
\* runtime's business; the code tests every status itself, so the listing
\* hands over every labelled container and the code's own test decides.
ListByLabel(service_name) == {c \in containers : HasLabel(c, "component", service_name)}

\* the listing of _name_container without all=True: the stopped containers,
\* which still hold their names, are left out
ListNotAll == {c \in containers : c.status \in {"running", "restarting", "paused"}}

\* client.containers.list(all=True)
ListAll == containers

\* The id docker gives a new container: never one of a container still on
\* the host or still held by a call (docker never reuses an id).  An id is
\* written <<name, n>>, n counting the containers that had the name.
HeldIds == UNION {{calls[p].todo[i] : i \in 1..Len(calls[p].todo)} : p \in Callers}
TakenIds == {c.id : c \in containers} \cup HeldIds
RECURSIVE FreshFrom(_, _)
FreshFrom(name, n) == IF <<name, n>> \notin TakenIds THEN <<name, n>> ELSE FreshFrom(name, n + 1)
FreshId(name) == FreshFrom(name, 0)

----------------------------------------------------------------------------
(* Python values. *)

\* dict.update: the keys of `other` win.
DictUpdate(d, other) ==
    [k \in DOMAIN d \cup DOMAIN other |-> IF k \in DOMAIN other THEN other[k] ELSE d[k]]

\* seq[0:-k], the slice taken with delta instead of -delta: all but the last k
SliceButLast(seq, k) == SubSeq(seq, 1, Len(seq) - k)

\* seq[0:k] for k > 0
SliceTo(seq, k) == SubSeq(seq, 1, Min(k, Len(seq)))

\* str(error): a KeyError prints the repr of its key.
Str(error) == IF error.type = "KeyError" THEN "'" \o error.args[1] \o "'" ELSE error.args[1]

APIError(what) == [type |-> "APIError", args |-> <<"docker: " \o what>>]
KeyError(key) == [type |-> "KeyError", args |-> <<key>>]
TypeError == [type |-> "TypeError", args |-> <<"'NoneType' object is not iterable">>]
ValueError(message) == [type |-> "ValueError", args |-> <<message>>]
ServiceControlError(message, service_name) ==
    [type |-> "ServiceControlError", args |-> <<message, service_name>>]

----------------------------------------------------------------------------
(* The record of one method call. *)

NoCall ==
    [op |-> "none", pc |-> "idle", svc |-> "", target |-> 0, running |-> 0, delta |-> 0,
     todo |-> <<>>, i |-> 0, name |-> "", launched |-> {}, killed |-> {}, attempts |-> 0,
     warned |-> {}, pruned |-> {}, err |-> <<>>, cause |-> <<>>, at |-> "",
     result |-> <<>>, before |-> {}, registered |-> <<>>, atkill |-> {}, prev |-> <<>>,
     data |-> <<>>, key |-> "", old |-> <<>>, stored |-> <<>>]

Finished(c) == c.pc \in {"idle", "returned", "raised"}
InFlight(c) == ~Finished(c)

\* The caller p may begin a call: the scaler calls from one loop.
MayCall(p) ==
    /\ Finished(calls[p])
    /\ serial => (p = 1 /\ \A q \in Callers : Finished(calls[q]))

\* set_target without its except clause: the exception leaves as it is
ThrowUncaught(c, error) ==
    [c EXCEPT !.pc = "raised", !.cause = <<error>>, !.at = c.pc, !.err = <<error>>]

\* An exception leaves the method.  In set_target it is caught at line 154
\* and line 155 raises ServiceControlError(str(error), service_name) instead.
Throw(c, error) ==
    IF c.op = "set_target"
    THEN [c EXCEPT !.pc = "raised", !.cause = <<error>>, !.at = c.pc,
                   !.err = <<ServiceControlError(Str(error), c.svc)>>]
    ELSE [c EXCEPT !.pc = "raised", !.cause = <<error>>, !.at = c.pc, !.err = <<error>>]

----------------------------------------------------------------------------
(* Construction and add_profile. *)

\* A host of 8 CPUs and 1 GiB, as client.info() reports it (MemTotal in
\* bytes), and the default factors cpu_overallocation=1, memory_overallocation=1.
DefaultConfig ==
    [NCPU |-> 8, MemTotal |-> 1073741824, cpu_overallocation |-> 1,
     memory_overallocation |-> 1]

\* DockerController(logger, prefix=pre, labels=lbls), on a host that runs
\* nothing yet, called from one loop.
Construct(pre, lbls) ==
    /\ containers = {}
    /\ profiles = <<>>
    /\ prefix = pre
    /\ labels = lbls
    /\ serial = TRUE
    /\ config = DefaultConfig
    /\ signatures = <<>>
    /\ calls = [p \in Callers |-> NoCall]

\* Constructed with the default prefix.
Init == \E lbls \in LabelArgs : Construct("", lbls)

\* Constructed with or without a prefix.
InitPrefixed == \E pre \in Prefixes, lbls \in LabelArgs : Construct(pre, lbls)

\* The profile a caller registers for a service: container_config.cpu_cores
\* in thousandths of a core (1.5 cores and 0.5 cores), ram_mb in MiB.
ServiceProfile(s) ==
    [name |-> s, image |-> "img_" \o s,
     cpu_millis |-> IF s = "a" THEN 1500 ELSE 500,
     ram_mb |-> IF s = "a" THEN 256 ELSE 128]

\* self._profiles[profile.name] = profile
AddProfileEffect(profile) ==
    [n \in DOMAIN profiles \cup {profile.name} |->
        IF n = profile.name THEN profile ELSE profiles[n]]

\* A call that has returned or raised is looked at until anything else
\* happens; then its record is dropped.
Forget == [p \in Callers |-> IF Finished(calls[p]) THEN NoCall ELSE calls[p]]

AddProfile(p, s) ==
    /\ MayCall(p)
    /\ profiles' = AddProfileEffect(ServiceProfile(s))
    /\ calls' = Forget
    /\ UNCHANGED <<containers, prefix, labels, serial, config, signatures>>

----------------------------------------------------------------------------
(* _name_container *)

\* f'{service_name}_{index}', with the prefix in front when there is one
ContainerName(pre, service_name, index) ==
    LET name == service_name \o "_" \o ToString(index)
    IN  IF pre # "" THEN pre \o "_" \o name ELSE name

\* the index taken from the number of names in use instead of probing
TryNamesByCount(pre, service_name, used_names, index) ==
    ContainerName(pre, service_name, index + Cardinality(used_names))

\* The while loop of _name_container, from `index` on.
RECURSIVE TryNames(_, _, _, _)
TryNames(pre, service_name, used_names, index) ==
    IF ContainerName(pre, service_name, index) \notin used_names
    THEN ContainerName(pre, service_name, index)
    ELSE TryNames(pre, service_name, used_names, index + 1)

NameContainer(pre, service_name, listed) ==
    TryNames(pre, service_name, {c.name : c \in listed}, 0)

----------------------------------------------------------------------------
(* get_target *)

IsLive(c) == c.status \in {"restarting", "running"}

\* only 'running' counted: a restarting container is taken for a missing one
ClassifyRunningOnly(status) ==
    IF status \in {"running"} THEN "count"
    ELSE IF status \in {"created", "removing", "paused", "exited", "dead", "restarting"}
    THEN "pass" ELSE "warn"

\* 'paused' missing from the set of the elif: a paused container is warned about
ClassifyWarnsPaused(status) ==
    IF status \in {"restarting", "running"} THEN "count"
    ELSE IF status \in {"created", "removing", "exited", "dead"} THEN "pass"
    ELSE "warn"

\* The if / elif / else of get_target's loop, for one container.
Classify(status) ==
    IF status \in {"restarting", "running"} THEN "count"
    ELSE IF status \in {"created", "removing", "paused", "exited", "dead"} THEN "pass"
    ELSE "warn"

\* every container of the listing counted, whatever its status
CountRunningAll(listed) == Cardinality(listed)

\* running, after the loop over `listed`
CountRunning(listed) == Cardinality({c \in listed : Classify(c.status) = "count"})

\* The containers the loop logs "Unknown docker status string" for.
Warnings(listed) == {<<c.id, c.status>> : c \in {d \in listed : Classify(d.status) = "warn"}}

\* The caller begins get_target(service_name).
CallGetTarget(p, s) ==
    /\ MayCall(p)
    /\ calls' = [Forget EXCEPT ![p] =
            [NoCall EXCEPT !.op = "get_target", !.pc = "get_target", !.svc = s,
                           !.before = containers, !.registered = profiles]]
    /\ UNCHANGED <<containers, profiles, prefix, labels, serial, config, signatures>>

\* delta computed the wrong way round
DeltaReversed(target, running) == running - target

\* Line 136: delta = target - running
Delta(target, running) == target - running

\* get_target tidying up as set_target does: client.containers.prune()
HostAfterGetTargetPruned == {d \in containers : d.status \notin StoppedStatuses}

\* What get_target asks of docker: a listing, which leaves the host as it is.
HostAfterGetTarget == containers

\* Lines 118-126, and for set_target lines 134-136 and the tests of 138, 146.
GetTargetStep(p) ==
    LET c == calls[p]
        listed == ListByLabel(c.svc)
        running == CountRunning(listed)
        delta == Delta(c.target, running)
    IN  /\ c.pc = "get_target"
        /\ calls' = [calls EXCEPT ![p] =
              IF c.op = "get_target"
              THEN [c EXCEPT !.pc = "returned", !.running = running,
                             !.warned = Warnings(listed), !.result = <<running>>]
              ELSE [c EXCEPT !.running = running, !.warned = Warnings(listed),
                             !.delta = delta, !.i = IF delta > 0 THEN 1 ELSE 0,
                             !.pc = IF delta < 0 THEN "list_kill"
                                    ELSE IF delta > 0 THEN "start_name" ELSE "prune_c"]]
        /\ containers' = HostAfterGetTarget
        /\ UNCHANGED <<profiles, prefix, labels, serial, config, signatures>>

----------------------------------------------------------------------------
(* _start *)

\* The caller begins _start(service_name).
CallStart(p, s) ==
    /\ MayCall(p)
    /\ Cardinality(containers) < MaxContainers
    /\ calls' = [Forget EXCEPT ![p] =
            [NoCall EXCEPT !.op = "_start", !.pc = "start_name", !.svc = s, !.i = 1,
                           !.before = containers, !.registered = profiles]]
    /\ UNCHANGED <<containers, profiles, prefix, labels, serial, config, signatures>>

\* Line 45: container_name = self._name_container(service_name)
StartName(p) ==
    LET c == calls[p]
    IN  /\ c.pc = "start_name"
        /\ calls' = [calls EXCEPT ![p] =
              [c EXCEPT !.pc = "start_run",
                        !.name = NameContainer(prefix, c.svc, ListAll)]]
        /\ UNCHANGED <<containers, profiles, prefix, labels, serial, config, signatures>>

\* The bytes docker reads a mem_limit of f'{ram_mb}m' as.
MemLimitBytes(ram_mb) == ram_mb * 1048576

\* The container client.containers.run starts (lines 50-63): cpu_period
\* 100000, cpu_quota int(100000 * cpu_cores), mem_limit f'{ram_mb}m'.
NewContainer(c) ==
    [id |-> FreshId(c.name), name |-> c.name, status |-> "running",
     labels |-> DictUpdate(CHOOSE d \in labels : TRUE, [component |-> c.svc]),
     CpuPeriod |-> 100000,
     CpuQuota |-> (100000 * profiles[c.svc].cpu_millis) \div 1000,
     Memory |-> MemLimitBytes(profiles[c.svc].ram_mb)]

\* the loop of set_target runs once more than delta: range(delta + 1)
AfterStartOnceMore(c) ==
    IF c.op = "_start" THEN "returned"
    ELSE IF c.i < c.delta + 1 THEN "start_name" ELSE "prune_c"

\* Where a call goes after a _start that returned.
AfterStart(c) ==
    IF c.op = "_start" THEN "returned"
    ELSE IF c.i < c.delta THEN "start_name" ELSE "prune_c"

\* Lines 46-63: the profile, the labels, and the run itself, which docker
\* refuses when the name is taken.
StartRun(p) ==
    LET c == calls[p]
    IN  /\ c.pc = "start_run"
        /\ IF c.svc \notin DOMAIN profiles
           THEN /\ calls' = [calls EXCEPT ![p] = Throw(c, KeyError(c.svc))]
                /\ UNCHANGED containers
           ELSE IF labels = {}
           THEN /\ calls' = [calls EXCEPT ![p] = Throw(c, TypeError)]
                /\ UNCHANGED containers
           ELSE IF c.name \in {d.name : d \in containers}
           THEN /\ calls' = [calls EXCEPT ![p] =
                       Throw([c EXCEPT !.attempts = c.attempts + 1], APIError("name in use"))]
                /\ UNCHANGED containers
           ELSE /\ containers' = containers \cup {NewContainer(c)}
                /\ calls' = [calls EXCEPT ![p] =
                       [c EXCEPT !.pc = AfterStart(c), !.attempts = c.attempts + 1,
                                 !.i = IF AfterStart(c) = "start_name" THEN c.i + 1 ELSE c.i,
                                 !.launched = c.launched \cup {FreshId(c.name)}]]
        /\ UNCHANGED <<profiles, prefix, labels, serial, config, signatures>>

----------------------------------------------------------------------------
(* set_target *)

\* The caller begins set_target(service_name, target).  The target is one
\* the host has room for.
CallSetTarget(p, s, t) ==
    /\ MayCall(p)
    /\ LET live == Cardinality({c \in ListByLabel(s) : IsLive(c)})
       IN  t > live => Cardinality(containers) + (t - live) <= MaxContainers
    /\ calls' = [Forget EXCEPT ![p] =
            [NoCall EXCEPT !.op = "set_target", !.pc = "get_target", !.svc = s,
                           !.target = t, !.before = containers,
                           !.registered = profiles]]
    /\ UNCHANGED <<containers, profiles, prefix, labels, serial, config, signatures>>

\* Lines 140-142: list again, keep the live ones, take the first -delta
\* of them in whatever order docker listed them.
ListKill(p) ==
    LET c == calls[p]
        live == {d.id : d \in {e \in ListByLabel(c.svc) : e.status \in {"restarting", "running"}}}
    IN  /\ c.pc = "list_kill"
        /\ \E running \in Listings(live) :
              calls' = [calls EXCEPT ![p] =
                  [c EXCEPT !.todo = SliceTo(running, -c.delta), !.atkill = live,
                            !.pc = IF SliceTo(running, -c.delta) = <<>>
                                   THEN "prune_c" ELSE "kill"]]
        /\ UNCHANGED <<containers, profiles, prefix, labels, serial, config, signatures>>

\* docker kills a container that is there and running (a restarting one
\* is), and does not restart a container it was told to kill.
Killable(id) == \E d \in containers : d.id = id /\ d.status \in {"restarting", "running"}

KillEffect(id) ==
    {IF d.id = id THEN [d EXCEPT !.status = "exited"] ELSE d : d \in containers}

\* Lines 143-144: container.kill() for the next container of the list.
Kill(p) ==
    LET c == calls[p]
        id == Head(c.todo)
    IN  /\ c.pc = "kill"
        /\ IF Killable(id)
           THEN /\ containers' = KillEffect(id)
                /\ calls' = [calls EXCEPT ![p] =
                       [c EXCEPT !.todo = Tail(c.todo), !.killed = c.killed \cup {id},
                                 !.pc = IF Tail(c.todo) = <<>> THEN "prune_c" ELSE "kill"]]
           ELSE /\ calls' = [calls EXCEPT ![p] = Throw(c, APIError("not running"))]
                /\ UNCHANGED containers
        /\ UNCHANGED <<profiles, prefix, labels, serial, config, signatures>>

\* Line 152: self.client.containers.prune()
PruneContainers(p) ==
    LET c == calls[p]
    IN  /\ c.pc = "prune_c"
        /\ containers' = {d \in containers : d.status \notin StoppedStatuses}
        /\ calls' = [calls EXCEPT ![p] =
              [c EXCEPT !.pc = "prune_v", !.pruned = c.pruned \cup {"containers"}]]
        /\ UNCHANGED <<profiles, prefix, labels, serial, config, signatures>>

\* Line 153: self.client.volumes.prune(), and the method returns.
PruneVolumes(p) ==
    LET c == calls[p]
    IN  /\ c.pc = "prune_v"
        /\ calls' = [calls EXCEPT ![p] =
              [c EXCEPT !.pc = "returned", !.pruned = c.pruned \cup {"volumes"}]]
        /\ UNCHANGED <<containers, profiles, prefix, labels, serial, config, signatures>>

----------------------------------------------------------------------------
(* free_cpu and free_memory *)

\* client.containers.list() with no argument: docker leaves out the
\* containers that are not running (all=False); a paused or restarting
\* container is still held as running.  Neither method tests a status.
ListedStatuses == {"running", "restarting", "paused"}
ListDefault(cs) == {c \in cs : c.status \in ListedStatuses}

\* self._reserved_cpu = 0.3, in thousandths of a core
ReservedCpu == 300
\* self._reserved_mem = 500
ReservedMem == 500

\* the period never tested: every listed container is taken to hold a core
CpuShareUntested(c) ==
    IF c.CpuPeriod # 0 THEN (c.CpuQuota * 1000) \div c.CpuPeriod ELSE 1000

\* Lines 96-97, for one container: CpuQuota / CpuPeriod when CpuPeriod is
\* truthy, in thousandths of a core (the quotas of the model divide evenly).
CpuShare(c) ==
    IF c.CpuPeriod # 0 THEN (c.CpuQuota * 1000) \div c.CpuPeriod ELSE 0

\* The loop of lines 95-97 over the listing.
RECURSIVE CpuReserved(_)
CpuReserved(listed) ==
    IF listed = {} THEN 0
    ELSE LET c == CHOOSE d \in listed : TRUE
         IN  CpuShare(c) + CpuReserved(listed \ {c})

\* free_cpu, lines 94-99, in thousandths of a core.
FreeCpu(cfg, cs) ==
    cfg.NCPU * cfg.cpu_overallocation * 1000 - ReservedCpu - CpuReserved(ListDefault(cs))

\* Line 108, for one container: attrs['HostConfig']['Memory'] / 1024.
MemShare(c) == c.Memory \div 1024

\* The loop of lines 107-108 over the listing.
RECURSIVE MemReserved(_)
MemReserved(listed) ==
    IF listed = {} THEN 0
    ELSE LET c == CHOOSE d \in listed : TRUE
         IN  MemShare(c) + MemReserved(listed \ {c})

\* free_memory, lines 106-110: MemTotal / 1024 * memory_overallocation
\* - 500 - the sum of Memory / 1024.
FreeMemory(cfg, cs) ==
    (cfg.MemTotal \div 1024) * cfg.memory_overallocation - ReservedMem
        - MemReserved(ListDefault(cs))

\* The caller begins free_cpu() or free_memory().
CallFree(p, op) ==
    /\ MayCall(p)
    /\ calls' = [Forget EXCEPT ![p] =
            [NoCall EXCEPT !.op = op, !.pc = op, !.before = containers]]
    /\ UNCHANGED <<containers, profiles, prefix, labels, serial, config, signatures>>

\* The listing is taken and the method returns.
FreeStep(p) ==
    LET c == calls[p]
    IN  /\ c.pc \in {"free_cpu", "free_memory"}
        /\ calls' = [calls EXCEPT ![p] =
              [c EXCEPT !.pc = "returned",
                        !.result = IF c.op = "free_cpu"
                                   THEN <<FreeCpu(config, containers)>>
                                   ELSE <<FreeMemory(config, containers)>>]]
        /\ UNCHANGED <<containers, profiles, prefix, labels, serial, config, signatures>>

\* The steps that are a call to docker.  The run of _start is reached
\* only past the profile and the labels.
AtDockerCall(c) ==
    \/ c.pc \in {"get_target", "list_kill", "kill", "start_name", "prune_c", "prune_v",
                 "free_cpu", "free_memory"}
    \/ c.pc = "start_run" /\ c.svc \in DOMAIN profiles /\ labels # {}

\* Any call to docker may raise instead of doing anything.
RuntimeFailure(p) ==
    LET c == calls[p]
    IN  /\ AtDockerCall(c)
        /\ calls' = [calls EXCEPT ![p] =
              Throw([c EXCEPT !.attempts = IF c.pc = "start_run" THEN c.attempts + 1
                                           ELSE c.attempts],
                    APIError(c.pc))]
        /\ UNCHANGED <<containers, profiles, prefix, labels, serial, config, signatures>>

----------------------------------------------------------------------------
(* The rest of the world: docker and its operators change containers. *)

\* Between the calls of a serial caller; at any time otherwise.
WorldMayAct == serial => \A p \in Callers : Finished(calls[p])

\* A container crashes, restarts, exits, is paused, ...
StatusChange(id, status) ==
    /\ WorldMayAct
    /\ \E d \in containers : d.id = id /\ d.status # status
    /\ containers' = {IF d.id = id THEN [d EXCEPT !.status = status] ELSE d : d \in containers}
    /\ calls' = Forget
    /\ UNCHANGED <<profiles, prefix, labels, serial, config, signatures>>

\* Somebody else starts a container: an operator by hand, another
\* controller.  docker refuses a name that is taken.  hostcfg is the
\* container's HostConfig: CpuPeriod, CpuQuota, Memory (bytes), 0 when unset.
WorldRunWith(name, lbls, status, hostcfg) ==
    /\ WorldMayAct
    /\ name \notin {d.name : d \in containers}
    /\ containers' = containers \cup
          {[id |-> FreshId(name), name |-> name, status |-> status, labels |-> lbls,
            CpuPeriod |-> hostcfg.CpuPeriod, CpuQuota |-> hostcfg.CpuQuota,
            Memory |-> hostcfg.Memory]}
    /\ calls' = Forget
    /\ UNCHANGED <<profiles, prefix, labels, serial, config, signatures>>

\* Somebody prunes the stopped containers: `docker container prune`.
WorldPrune ==
    /\ WorldMayAct
    /\ \E d \in containers : d.status \in StoppedStatuses
    /\ containers' = {d \in containers : d.status \notin StoppedStatuses}
    /\ calls' = Forget
    /\ UNCHANGED <<profiles, prefix, labels, serial, config, signatures>>

\* A HostConfig with no limit set.
NoLimits == [CpuPeriod |-> 0, CpuQuota |-> 0, Memory |-> 0]

WorldRun(name, lbls, status) == WorldRunWith(name, lbls, status, NoLimits)

----------------------------------------------------------------------------
(* The controller scaling services on a host it has to itself. *)

Next ==
    \/ \E p \in Callers, s \in Services : AddProfile(p, s)
    \/ \E p \in Callers, s \in Services : CallGetTarget(p, s)
    \/ \E p \in Callers, s \in Services : CallStart(p, s)
    \/ \E p \in Callers, s \in Services, t \in 0..MaxTarget : CallSetTarget(p, s, t)
    \/ \E p \in Callers : GetTargetStep(p)
    \/ \E p \in Callers : StartName(p)
    \/ \E p \in Callers : StartRun(p)
    \/ \E p \in Callers : ListKill(p)
    \/ \E p \in Callers : Kill(p)
    \/ \E p \in Callers : PruneContainers(p)
    \/ \E p \in Callers : PruneVolumes(p)
    \/ \E p \in Callers : RuntimeFailure(p)
    \/ \E d \in containers, status \in ScalingStatuses : StatusChange(d.id, status)
    \/ WorldPrune

Spec == Init /\ [][Next]_vars

----------------------------------------------------------------------------
(* get_target on a host where others run containers too, of any status. *)

MaxObserved == 2        \* containers on the observed host
ObservedNames == {"x", "y", "z"}
ObservedLabels == {<<>>, [component |-> "a"], [component |-> "b", owner |-> "al"]}

NextObserve ==
    \/ \E n \in ObservedNames, l \in ObservedLabels :
          Cardinality(containers) < MaxObserved /\ WorldRun(n, l, "created")
    \/ \E d \in containers, status \in Statuses : StatusChange(d.id, status)
    \/ \E p \in Callers, s \in Services : AddProfile(p, s)
    \/ \E p \in Callers, s \in Services : CallGetTarget(p, s)
    \/ \E p \in Callers : GetTargetStep(p)
    \/ \E p \in Callers : RuntimeFailure(p)

SpecObserve == Init /\ [][NextObserve]_vars

----------------------------------------------------------------------------
(* _name_container and _start on a host where any of the names may be taken. *)

MaxIndex == 2           \* names <service>_0 .. <service>_MaxIndex may be taken by others

\* Names others may have taken: the controller's own pattern with and
\* without its prefix, and a name outside the pattern.
TakenNames ==
    {ContainerName(pre, "a", i) : pre \in {prefix, ""}, i \in 0..MaxIndex} \cup {"db"}

NextNaming ==
    \/ \E n \in TakenNames, status \in {"running", "exited"} : WorldRun(n, <<>>, status)
    \/ \E p \in Callers, s \in Services : AddProfile(p, s)
    \/ \E p \in Callers, s \in Services : CallStart(p, s)
    \/ \E p \in Callers : StartName(p)
    \/ \E p \in Callers : StartRun(p)
    \/ \E p \in Callers : RuntimeFailure(p)

SpecNaming == InitPrefixed /\ [][NextNaming]_vars

----------------------------------------------------------------------------
(* The controller asked for the free resources of hosts of several sizes,
   beside containers of other owners that hold, or do not hold, a share. *)

HostConfigs ==
    {[NCPU |-> n, MemTotal |-> 1073741824, cpu_overallocation |-> f,
      memory_overallocation |-> f] : n \in {2, 8}, f \in {1, 2}}
ForeignNames == {"x", "y"}
ForeignLimits ==
    {NoLimits,
     [CpuPeriod |-> 100000, CpuQuota |-> 150000, Memory |-> 268435456],
     [CpuPeriod |-> 50000, CpuQuota |-> 25000, Memory |-> 0]}
HostedStatuses == {"running", "exited"}

InitResources ==
    /\ containers = {}
    /\ profiles = <<>>
    /\ prefix = ""
    /\ labels = {[owner |-> "al"]}
    /\ serial = TRUE
    /\ config \in HostConfigs
    /\ signatures = <<>>
    /\ calls = [p \in Callers |-> NoCall]

NextResources ==
    \/ \E p \in Callers, s \in Services : AddProfile(p, s)
    \/ \E p \in Callers, op \in {"free_cpu", "free_memory"} : CallFree(p, op)
    \/ \E p \in Callers : FreeStep(p)
    \/ \E p \in Callers, s \in Services : CallStart(p, s)
    \/ \E p \in Callers : StartName(p)
    \/ \E p \in Callers : StartRun(p)
    \/ \E p \in Callers : RuntimeFailure(p)
    \/ \E c \in containers, st \in HostedStatuses : StatusChange(c.id, st)
    \/ \E n \in ForeignNames, l \in ForeignLimits :
          Cardinality(containers) < MaxContainers /\ WorldRunWith(n, <<>>, "running", l)

SpecResources == InitResources /\ [][NextResources]_vars

----------------------------------------------------------------------------
(* The caller that now and then lets two calls set_target(s, t) run at the
   same time, and after both have finished calls set_target(s, t) once more
   alone. *)

\* The two callers whose calls cross.
Racers == {1, 2}

\* The service the crossing calls scale.
RaceService == "a"

\* Two calls set_target(s, t) begin, neither waiting for the other.
BeginRace(s, t) ==
    /\ serial
    /\ \A q \in Racers : Finished(calls[q])
    /\ LET live == Cardinality({c \in ListByLabel(s) : IsLive(c)})
       IN  t > live => Cardinality(containers) + (t - live) <= MaxContainers
    /\ serial' = FALSE
    /\ calls' = [q \in Callers |->
            IF q \in Racers
            THEN [NoCall EXCEPT !.op = "set_target", !.pc = "get_target", !.svc = s,
                                !.target = t, !.before = containers,
                                !.registered = profiles]
            ELSE NoCall]
    /\ UNCHANGED <<containers, profiles, prefix, labels, config, signatures>>

\* What the calls that crossed saw and did, and what they left.
RaceSummary(s) ==
    [saw |-> {calls[q].running : q \in Racers},
     live |-> Cardinality({c \in ListByLabel(s) : IsLive(c)}),
     launched |-> {Cardinality(calls[q].launched) : q \in Racers},
     killed |-> {Cardinality(calls[q].killed) : q \in Racers},
     rejected |-> {q \in Racers : calls[q].pc = "raised"
                                  /\ calls[q].cause = <<APIError("name in use")>>}]

\* Both calls have finished; the caller is back to one call at a time, and
\* the first is set_target(s, t) again.
RetryAlone(s, t) ==
    /\ ~serial
    /\ \A q \in Racers :
          /\ Finished(calls[q]) /\ calls[q].op = "set_target"
          /\ calls[q].svc = s /\ calls[q].target = t
    /\ serial' = TRUE
    /\ calls' = [q \in Callers |->
            IF q = 1
            THEN [NoCall EXCEPT !.op = "set_target", !.pc = "get_target", !.svc = s,
                                !.target = t, !.before = containers,
                                !.registered = profiles, !.prev = <<RaceSummary(s)>>]
            ELSE NoCall]
    /\ UNCHANGED <<containers, profiles, prefix, labels, config, signatures>>

NextConcurrent ==
    \/ \E p \in Callers : serial /\ AddProfile(p, RaceService)
    \/ \E p \in Callers, t \in 0..MaxTarget : serial /\ CallSetTarget(p, RaceService, t)
    \/ \E t \in 0..MaxTarget : BeginRace(RaceService, t)
    \/ \E t \in 0..MaxTarget : RetryAlone(RaceService, t)
    \/ \E p \in Callers : GetTargetStep(p)
    \/ \E p \in Callers : StartName(p)
    \/ \E p \in Callers : StartRun(p)
    \/ \E p \in Callers : ListKill(p)
    \/ \E p \in Callers : Kill(p)
    \/ \E p \in Callers : PruneContainers(p)
    \/ \E p \in Callers : PruneVolumes(p)

SpecConcurrent == Init /\ [][NextConcurrent]_vars

----------------------------------------------------------------------------
(* The caller that, once it has asked for a target, keeps asking for it,
   while docker fails now and then, on a host where instances of the
   services may have been left running by others. *)

\* What the call that has just finished did.
LastCall(c) ==
    [pc |-> c.pc, at |-> c.at, delta |-> c.delta,
     launched |-> Cardinality(c.launched), killed |-> Cardinality(c.killed)]

\* set_target(s, t) called again, with the service and the target of the
\* call that has finished.
CallAgain(p) ==
    LET c == calls[p]
    IN  /\ MayCall(p)
        /\ c.op = "set_target" /\ Finished(c)
        /\ calls' = [calls EXCEPT ![p] =
              [NoCall EXCEPT !.op = "set_target", !.pc = "get_target", !.svc = c.svc,
                             !.target = c.target, !.before = containers,
                             !.registered = profiles, !.prev = <<LastCall(c)>>]]
        /\ UNCHANGED <<containers, profiles, prefix, labels, serial, config, signatures>>

\* The steps of a call that docker does not fail, and the next call.
Progress ==
    \E p \in Callers :
        \/ GetTargetStep(p) \/ StartName(p) \/ StartRun(p)
        \/ ListKill(p) \/ Kill(p) \/ PruneContainers(p) \/ PruneVolumes(p)
        \/ CallAgain(p)

\* The caller has not begun to ask.
NotAskedYet == \A p \in Callers : calls[p].op = "none"

NextKeepCalling ==
    \/ \E n \in ObservedNames, s \in Services :
          /\ NotAskedYet /\ Cardinality(containers) < MaxContainers
          /\ WorldRun(n, [component |-> s], "running")
    \/ \E p \in Callers, s \in Services : calls[p].op = "none" /\ AddProfile(p, s)
    \/ \E p \in Callers, s \in Services, t \in 0..MaxTarget :
          calls[p].op = "none" /\ s \in DOMAIN profiles /\ CallSetTarget(p, s, t)
    \/ \E p \in Callers : CallAgain(p)
    \/ \E p \in Callers : GetTargetStep(p)
    \/ \E p \in Callers : StartName(p)
    \/ \E p \in Callers : StartRun(p)
    \/ \E p \in Callers : ListKill(p)
    \/ \E p \in Callers : Kill(p)
    \/ \E p \in Callers : PruneContainers(p)
    \/ \E p \in Callers : PruneVolumes(p)
    \/ \E p \in Callers : RuntimeFailure(p)

\* The caller's loop goes on, and a call to docker that does not fail
\* comes back.
SpecKeepCalling == Init /\ [][NextKeepCalling]_vars /\ WF_vars(Progress)

----------------------------------------------------------------------------
(* One caller on a host whose containers exit at any time, also while a
   call is under way. *)

InitUnsettled ==
    /\ containers = {}
    /\ profiles = <<>>
    /\ prefix = ""
    /\ labels \in LabelArgs
    /\ serial = FALSE
    /\ config = DefaultConfig
    /\ signatures = <<>>
    /\ calls = [p \in Callers |-> NoCall]

NextUnsettled ==
    \/ AddProfile(1, RaceService)
    \/ \E t \in 0..MaxTarget : CallSetTarget(1, RaceService, t)
    \/ \E p \in Callers : GetTargetStep(p)
    \/ \E p \in Callers : StartName(p)
    \/ \E p \in Callers : StartRun(p)
    \/ \E p \in Callers : ListKill(p)
    \/ \E p \in Callers : Kill(p)
    \/ \E p \in Callers : PruneContainers(p)
    \/ \E p \in Callers : PruneVolumes(p)
    \/ \E d \in containers : StatusChange(d.id, "exited")

SpecUnsettled == InitUnsettled /\ [][NextUnsettled]_vars

----------------------------------------------------------------------------
(* SignatureClient: add_update and add_update_many on the signature
   collection of the datastore. *)

MaxBatch == 2           \* rules in one add_update_many

SigType == "yara"
SigSource == "src"
SigNames == {"n1"}
\* data['signature_id'], when the rule has one: a rule of a name comes
\* under the id of its name or under an id of its own
SigIds == {<<>>, <<"x1">>}
SigData == {"d1", "d2"}
SigStatuses == {"DEPLOYED", "DISABLED"}

\* The rules a caller hands over.
Rules ==
    [type : {SigType}, source : {SigSource}, name : SigNames, signature_id : SigIds,
     data : SigData, status : SigStatuses]

\* The lists handed to add_update_many, which never looks at the data of a rule.
Batches == UNION {[1..n -> {r \in Rules : r.data = "d1"}] : n \in 0..MaxBatch}

\* x.get('signature_id', x['name'])
SignatureId(rule) == IF rule.signature_id # <<>> THEN rule.signature_id[1] ELSE rule.name

\* f"{type}_{source}_{signature_id}", lines 55, 97, 109, 117
SigKey(rule) == rule.type \o "_" \o rule.source \o "_" \o SignatureId(rule)

\* The document the datastore keeps for a rule that brings neither a state
\* change nor statistics: the fields take their defaults.
NewSignature(rule) ==
    [type |-> rule.type, source |-> rule.source, name |-> rule.name,
     signature_id |-> rule.signature_id, data |-> rule.data, status |-> rule.status,
     state_change_user |-> <<>>, state_change_date |-> <<>>, stats |-> "none"]

\* datastore.signature.save(key, doc); an upsert of a bulk plan
Save(store, key, doc) ==
    [k \in DOMAIN store \cup {key} |-> IF k = key THEN doc ELSE store[k]]

\* Lines 74 and 120.
UserModifiedLastState(old) ==
    old.state_change_user \notin {<<"update_service_account">>, <<>>}

\* the stored status kept whenever it differs, whoever changed it last
KeepStateOfAnyone(old, doc) ==
    [doc EXCEPT !.status = IF doc.status = "DEPLOYED" /\ doc.status # old.status
                           THEN old.status ELSE doc.status,
                !.state_change_date = old.state_change_date,
                !.state_change_user = old.state_change_user,
                !.stats = old.stats]

\* Lines 74-86 and 120-133: what is kept of the stored signature.
KeepState(old, doc) ==
    [doc EXCEPT !.status = IF /\ UserModifiedLastState(old)
                              /\ doc.status = "DEPLOYED" /\ doc.status # old.status
                           THEN old.status ELSE doc.status,
                !.state_change_date = old.state_change_date,
                !.state_change_user = old.state_change_user,
                !.stats = old.stats]

\* Lines 59-63: the stored signatures of the name, type and source, under
\* another id.
OthersOfName(store, rule, key) ==
    {k \in DOMAIN store :
        /\ store[k].name = rule.name /\ store[k].type = rule.type
        /\ store[k].source = rule.source /\ k # key}

\* The caller begins add_update(data, dedup_name).
CallAddUpdate(p, rule, dedup_name) ==
    /\ MayCall(p)
    /\ calls' = [Forget EXCEPT ![p] =
            [NoCall EXCEPT !.op = "add_update",
                           !.pc = IF dedup_name THEN "au_search" ELSE "au_get",
                           !.data = <<rule>>, !.key = SigKey(rule),
                           !.stored = signatures]]
    /\ UNCHANGED <<containers, profiles, prefix, labels, serial, config, signatures>>

\* Lines 58-65: the search for the name under another id.
AddUpdateSearch(p) ==
    LET c == calls[p]
    IN  /\ c.pc = "au_search"
        /\ calls' = [calls EXCEPT ![p] =
              IF OthersOfName(signatures, c.data[1], c.key) # {}
              THEN Throw(c, ValueError("A signature with that name already exists"))
              ELSE [c EXCEPT !.pc = "au_get"]]
        /\ UNCHANGED <<containers, profiles, prefix, labels, serial, config, signatures>>

\* Lines 67-71: the stored signature is read; with the same data the
\* method returns True, key, None.
AddUpdateGet(p) ==
    LET c == calls[p]
        old == IF c.key \in DOMAIN signatures THEN <<signatures[c.key]>> ELSE <<>>
    IN  /\ c.pc = "au_get"
        /\ calls' = [calls EXCEPT ![p] =
              IF old # <<>> /\ old[1].data = c.data[1].data
              THEN [c EXCEPT !.pc = "returned", !.old = old,
                             !.result = <<[success |-> TRUE, key |-> c.key, op |-> <<>>]>>]
              ELSE [c EXCEPT !.pc = "au_save", !.old = old]]
        /\ UNCHANGED <<containers, profiles, prefix, labels, serial, config, signatures>>

\* Lines 53 and 68-90: the state of the signature read is kept, and the
\* rule is saved.
AddUpdateSave(p) ==
    LET c == calls[p]
        doc == [NewSignature(c.data[1]) EXCEPT !.signature_id = <<SignatureId(c.data[1])>>]
    IN  /\ c.pc = "au_save"
        /\ signatures' = Save(signatures, c.key,
                              IF c.old # <<>> THEN KeepState(c.old[1], doc) ELSE doc)
        /\ calls' = [calls EXCEPT ![p] =
              [c EXCEPT !.pc = "returned",
                        !.result = <<[success |-> TRUE, key |-> c.key,
                                      op |-> IF c.old # <<>> THEN <<"MODIFIED">>
                                             ELSE <<"ADDED">>]>>]]
        /\ UNCHANGED <<containers, profiles, prefix, labels, serial, config>>

\* The last position of the name in the batch.
LastOfName(data, name) ==
    CHOOSE i \in 1..Len(data) :
        data[i].name = name /\ \A j \in (i + 1)..Len(data) : data[j].name # name

\* Line 97: a dict by name; of two rules of a name the later one stays.
NamesMap(data) ==
    [n \in {data[i].name : i \in 1..Len(data)} |-> SigKey(data[LastOfName(data, n)])]

\* Lines 101-105: the ids to skip, one for every stored signature of the
\* type and source whose name the batch gives another id.
SkipList(store, source, sig_type, data) ==
    LET names_map == NamesMap(data)
    IN  {names_map[store[k].name] :
            k \in {j \in DOMAIN store :
                      /\ store[j].type = sig_type /\ store[j].source = source
                      /\ store[j].name \in DOMAIN names_map
                      /\ names_map[store[j].name] # j}}

\* Lines 112-113: multiget of the ids of names_map; the missing are left out.
OldData(store, data) ==
    LET ids == {NamesMap(data)[n] : n \in DOMAIN NamesMap(data)}
    IN  [k \in ids \cap DOMAIN store |-> store[k]]

\* Lines 116-135 and the bulk of line 138: the upserts, in the order of the
\* batch.
RECURSIVE Bulk(_, _, _)
Bulk(store, old_data, data) ==
    IF data = <<>> THEN store
    ELSE LET rule == Head(data)
             key == SigKey(rule)
             doc == IF key \in DOMAIN old_data
                    THEN KeepState(old_data[key], NewSignature(rule))
                    ELSE NewSignature(rule)
         IN  Bulk(Save(store, key, doc), old_data, Tail(data))

\* Lines 107-110: the rules whose id is not skipped.
NotSkipped(data, skip_list) ==
    SelectSeq(data, LAMBDA x : SigKey(x) \notin skip_list)

\* add_update_many(source, sig_type, data, dedup_name), lines 92-141.
AddUpdateMany(p, source, sig_type, data, dedup_name) ==
    LET skip_list == IF dedup_name THEN SkipList(signatures, source, sig_type, data) ELSE {}
        kept == NotSkipped(data, skip_list)
    IN  /\ MayCall(p)
        /\ signatures' = Bulk(signatures, OldData(signatures, data), kept)
        /\ calls' = [Forget EXCEPT ![p] =
              [NoCall EXCEPT !.op = "add_update_many", !.pc = "returned",
                             !.data = data, !.stored = signatures,
                             !.result = <<[success |-> Len(kept), errors |-> <<>>,
                                           skipped |-> skip_list]>>]]
        /\ UNCHANGED <<containers, profiles, prefix, labels, serial, config>>

\* A user, or the update service under its account, sets the status of a
\* stored signature; its statistics have been counted by then.
ChangeStatus(key, status, user) ==
    /\ WorldMayAct
    /\ key \in DOMAIN signatures
    /\ signatures' = [signatures EXCEPT ![key] =
            [@ EXCEPT !.status = status, !.state_change_user = <<user>>,
                      !.state_change_date = <<"today">>, !.stats = "counted"]]
    /\ calls' = Forget
    /\ UNCHANGED <<containers, profiles, prefix, labels, serial, config>>

StateChangeUsers == {"admin", "update_service_account"}

\* SignatureClient(datastore) on an empty collection; the client is used
\* from one loop.
InitSignatures ==
    /\ containers = {}
    /\ profiles = <<>>
    /\ prefix = ""
    /\ labels = {}
    /\ serial = TRUE
    /\ config = DefaultConfig
    /\ signatures = <<>>
    /\ calls = [p \in Callers |-> NoCall]

NextSignatures ==
    \/ \E p \in Callers, rule \in Rules, dedup_name \in BOOLEAN :
          CallAddUpdate(p, rule, dedup_name)
    \/ \E p \in Callers : AddUpdateSearch(p)
    \/ \E p \in Callers : AddUpdateGet(p)
    \/ \E p \in Callers : AddUpdateSave(p)
    \/ \E p \in Callers, data \in Batches, dedup_name \in BOOLEAN :
          AddUpdateMany(p, SigSource, SigType, data, dedup_name)
    \/ \E key \in DOMAIN signatures, status \in SigStatuses, user \in StateChangeUsers :
          ChangeStatus(key, status, user)

SpecSignatures == InitSignatures /\ [][NextSignatures]_vars

----------------------------------------------------------------------------
(* SignatureClient used by two callers that do not wait for each other,
   every call made with dedup_name=True. *)

InitDedup ==
    /\ containers = {}
    /\ profiles = <<>>
    /\ prefix = ""
    /\ labels = {}
    /\ serial = FALSE
    /\ config = DefaultConfig
    /\ signatures = <<>>
    /\ calls = [p \in Callers |-> NoCall]

\* No status is changed by anyone here, and the rules come as DEPLOYED.
DeployedRules == {r \in Rules : r.status = "DEPLOYED"}
DeployedBatches == {b \in Batches : \A i \in 1..Len(b) : b[i] \in DeployedRules}

NextDedup ==
    \/ \E p \in Callers, rule \in DeployedRules : CallAddUpdate(p, rule, TRUE)
    \/ \E p \in Callers : AddUpdateSearch(p)
    \/ \E p \in Callers : AddUpdateGet(p)
    \/ \E p \in Callers : AddUpdateSave(p)
    \/ \E p \in Callers, data \in DeployedBatches :
          AddUpdateMany(p, SigSource, SigType, data, TRUE)

SpecDedup == InitDedup /\ [][NextDedup]_vars

----------------------------------------------------------------------------
(* What is claimed of set_target, of a caller that makes one call at a time. *)

\* The containers of cs that carry the label component=s.
Labelled(cs, s) == {d \in cs : "component" \in DOMAIN d.labels /\ d.labels["component"] = s}

\* The ids of the live instances of s among cs.
LiveIds(cs, s) == {d.id : d \in {e \in Labelled(cs, s) : e.status \in {"running", "restarting"}}}

SetTargetCalls == {p \in Callers : calls[p].op = "set_target"}

\* C1: when set_target(s, t) has returned for a service with a profile, and
\* only the call changed the host, get_target(s) is t.
C1_TargetReached ==
    \A p \in SetTargetCalls :
        (calls[p].pc = "returned" /\ calls[p].svc \in DOMAIN profiles)
            => CountRunning(ListByLabel(calls[p].svc)) = calls[p].target

\* set_target(s, 2) has returned for a service that had no instance live.
C1_Witness ==
    \E p \in SetTargetCalls :
        /\ calls[p].pc = "returned" /\ calls[p].svc \in DOMAIN profiles
        /\ calls[p].target = 2
        /\ Cardinality(LiveIds(calls[p].before, calls[p].svc)) = 0

\* C2: set_target(s, n) with exactly n instances live, running or restarting,
\* launches nothing and kills nothing, at any point of the call.
C2_NoOpAtTarget ==
    \A p \in SetTargetCalls :
        Cardinality(LiveIds(calls[p].before, calls[p].svc)) = calls[p].target
            => /\ calls[p].i = 0 /\ calls[p].attempts = 0 /\ calls[p].launched = {}
               /\ calls[p].todo = <<>> /\ calls[p].killed = {}
               /\ LiveIds(containers, calls[p].svc) = LiveIds(calls[p].before, calls[p].svc)
               /\ calls[p].pc \notin {"list_kill", "kill", "start_name", "start_run"}

\* set_target(s, 2) has returned with one instance running and one restarting.
C2_Witness ==
    \E p \in SetTargetCalls :
        /\ calls[p].pc = "returned" /\ calls[p].target = 2
        /\ \E d, e \in Labelled(calls[p].before, calls[p].svc) :
              d.status = "running" /\ e.status = "restarting"
        /\ Cardinality(LiveIds(calls[p].before, calls[p].svc)) = 2

\* The launched containers that are on the host and live.
LaunchedLive(c) == {id \in c.launched : id \in LiveIds(containers, c.svc)}

\* C3: with delta = target - live > 0, set_target makes delta launches one
\* after the other; when the k-th fails the k-1 launched stay live, no
\* further launch is tried, and ServiceControlError is raised.
C3_ScaleUp ==
    \A p \in SetTargetCalls :
        LET c == calls[p]
            delta == c.target - Cardinality(LiveIds(c.before, c.svc))
        IN  delta > 0 =>
              /\ c.i <= delta /\ c.attempts <= c.i
              /\ Cardinality(c.launched) \in {c.i - 1, c.i}
              /\ LaunchedLive(c) = c.launched
              /\ c.launched \cap {d.id : d \in c.before} = {}
              /\ c.killed = {}
              /\ c.pc = "returned" =>
                    c.i = delta /\ c.attempts = delta /\ Cardinality(c.launched) = delta
              /\ (c.pc = "raised" /\ c.at \in {"start_name", "start_run"}) =>
                    /\ Cardinality(c.launched) = c.i - 1
                    /\ c.err[1].type = "ServiceControlError"
              /\ (c.pc \in {"start_name", "start_run"}) => c.at = ""

\* With three to launch, the second launch failed: one instance is live.
C3_Witness ==
    \E p \in SetTargetCalls :
        LET c == calls[p]
        IN  /\ c.target - Cardinality(LiveIds(c.before, c.svc)) = 3
            /\ c.pc = "raised" /\ c.at = "start_run" /\ c.i = 2
            /\ Cardinality(LaunchedLive(c)) = 1

\* C4: with d = live - target > 0 and no kill failing, set_target kills
\* exactly d containers, each a live instance of the service, and exactly
\* target of the instances that were live stay live.
C4_ScaleDown ==
    \A p \in SetTargetCalls :
        LET c == calls[p]
            was == LiveIds(c.before, c.svc)
            d == Cardinality(was) - c.target
        IN  (d > 0 /\ c.pc = "returned") =>
              /\ Cardinality(c.killed) = d
              /\ c.killed \subseteq was
              /\ LiveIds(containers, c.svc) = was \ c.killed
              /\ Cardinality(LiveIds(containers, c.svc)) = c.target
              /\ c.launched = {}

\* set_target(s, 1) has returned with three instances live before it.
C4_Witness ==
    \E p \in SetTargetCalls :
        LET c == calls[p]
        IN  /\ c.pc = "returned" /\ c.target = 1
            /\ Cardinality(LiveIds(c.before, c.svc)) = 3
            /\ Cardinality(c.killed) = 2

\* C8: a docker call that fails during set_target(s, t) ends the call with
\* ServiceControlError carrying the message of the failure and s; nothing
\* else is raised by set_target, and after a failure the call neither goes
\* on nor returns.
C8_FailuresWrapped ==
    \A p \in SetTargetCalls :
        LET c == calls[p]
        IN  /\ c.at # "" => c.pc = "raised"
            /\ c.pc = "returned" => (c.at = "" /\ c.cause = <<>> /\ c.err = <<>>)
            /\ c.pc = "raised" =>
                  /\ Len(c.cause) = 1 /\ Len(c.err) = 1
                  /\ c.err[1].type = "ServiceControlError"
                  /\ c.err[1].args[2] = c.svc
                  /\ c.cause[1].type = "APIError" => c.err[1].args[1] = c.cause[1].args[1]

\* The second kill of a scale-down failed and set_target has raised.
C8_Witness ==
    \E p \in SetTargetCalls :
        LET c == calls[p]
        IN  /\ c.pc = "raised" /\ c.at = "kill" /\ c.killed # {}
            /\ c.cause[1].type = "APIError"

\* C9: every set_target that has ended, by returning or by raising, has
\* pruned the stopped containers and the unused volumes.
C9_AlwaysPrunes ==
    \A p \in SetTargetCalls :
        calls[p].pc \in {"returned", "raised"} => calls[p].pruned = {"containers", "volumes"}

\* What a failed call to docker leaves a method as: the docker error
\* itself, or set_target's ServiceControlError.
RuntimeFailureSignals == {"APIError", "ServiceControlError"}

\* C10: a launch for a service without a profile, by _start or by
\* set_target, ends with an error that is not one a failed docker call
\* ends with, and launches no container.
C10_MissingProfileError ==
    \A p \in Callers :
        LET c == calls[p]
        IN  (c.pc = "raised" /\ c.at = "start_run" /\ c.svc \notin DOMAIN c.registered) =>
              /\ c.err[1].type \notin RuntimeFailureSignals
              /\ c.launched = {}
              /\ containers = c.before

----------------------------------------------------------------------------
(* What is claimed of get_target, on a host others use too. *)

GetTargetCalls == {p \in Callers : calls[p].op = "get_target"}

\* The containers labelled component=s whose status the code does not know.
OddOnes(cs, s) ==
    {d \in Labelled(cs, s) :
        d.status \notin {"running", "restarting", "created", "removing", "paused",
                         "exited", "dead"}}

\* C5: get_target(s) returns the number of containers labelled component=s
\* that are running or restarting; it warns once for each labelled
\* container of a status it does not know, for no other container, and
\* such a container does not make it raise.
C5_CountsLive ==
    \A p \in GetTargetCalls :
        LET c == calls[p]
        IN  /\ c.pc = "returned" =>
                /\ c.result = <<Cardinality(LiveIds(containers, c.svc))>>
                /\ c.warned = {<<d.id, d.status>> : d \in OddOnes(containers, c.svc)}
            /\ c.pc = "raised" => (c.at = "get_target" /\ c.err[1].type = "APIError")

\* get_target returned 1 for a restarting instance beside one of unknown
\* status, which it warned about.
C5_Witness ==
    \E p \in GetTargetCalls :
        LET c == calls[p]
        IN  /\ c.pc = "returned" /\ c.result = <<1>>
            /\ \E d \in Labelled(containers, c.svc) : d.status = "restarting"
            /\ \E d \in Labelled(containers, c.svc) :
                  d.status = "unknown-x" /\ <<d.id, d.status>> \in c.warned

\* C6: get_target leaves the containers of the host, with their names,
\* labels and statuses, and the registered profiles as they were.
C6_PureRead ==
    \A p \in GetTargetCalls :
        containers = calls[p].before /\ profiles = calls[p].registered

\* get_target has returned on a host with a stopped container, for a
\* controller that has a profile.
C6_Witness ==
    \E p \in GetTargetCalls :
        /\ calls[p].pc = "returned"
        /\ \E d \in Labelled(containers, calls[p].svc) : d.status = "exited"
        /\ DOMAIN profiles # {}

----------------------------------------------------------------------------
(* What is claimed of _name_container. *)

\* [prefix_]serviceName_i
PatternName(pre, s, i) ==
    IF pre = "" THEN s \o "_" \o ToString(i) ELSE pre \o "_" \o s \o "_" \o ToString(i)

\* C7: whatever names are in use on the host, by stopped containers too,
\* _name_container returns [prefix_]serviceName_i for the smallest i >= 0
\* whose name is not in use; the name it returns is not in use.
C7_LowestFreeName ==
    \A p \in Callers :
        LET c == calls[p]
            used == {d.name : d \in containers}
        IN  (c.op = "_start" /\ c.pc = "start_run") =>
              /\ c.name \notin used
              /\ \E i \in 0..Cardinality(used) :
                    /\ c.name = PatternName(prefix, c.svc, i)
                    /\ \A j \in 0..(i - 1) : PatternName(prefix, c.svc, j) \in used

\* With a prefix, indexes 0 and 2 in use, one by a stopped container:
\* index 1 is returned.
C7_Witness ==
    \E p \in Callers :
        LET c == calls[p]
        IN  /\ c.op = "_start" /\ c.pc = "start_run" /\ prefix # ""
            /\ c.name = PatternName(prefix, c.svc, 1)
            /\ \E d \in containers : d.name = PatternName(prefix, c.svc, 0) /\ d.status = "exited"
            /\ \E d \in containers : d.name = PatternName(prefix, c.svc, 2)


----------------------------------------------------------------------------

FreeCalls(op) == {p \in Callers : calls[p].op = op /\ calls[p].pc = "returned"}

\* The cores, in thousandths, the containers of S hold by quota and period.
RECURSIVE QuotaOverPeriod(_)
QuotaOverPeriod(S) ==
    IF S = {} THEN 0
    ELSE LET c == CHOOSE d \in S : TRUE
         IN  (c.CpuQuota * 1000) \div c.CpuPeriod + QuotaOverPeriod(S \ {c})

\* C11: free_cpu() returns hostCPUs x cpu_overallocation - 0.3 - the sum of
\* quota / period over the containers of the default listing whose period is
\* not zero, whoever launched them; a container without a period counts 0.
\* In thousandths of a core.
C11_FreeCpu ==
    \A p \in FreeCalls("free_cpu") :
        calls[p].result =
            <<config.NCPU * config.cpu_overallocation * 1000 - 300
              - QuotaOverPeriod({c \in ListDefault(containers) : c.CpuPeriod # 0})>>

\* 8 CPUs, factor 2, two containers of 1.5 cores: 12.7 cores free; one of
\* the two is not the controller's, and a third one holds no period.
C11_Witness ==
    \E p \in FreeCalls("free_cpu") :
        /\ config.NCPU = 8 /\ config.cpu_overallocation = 2
        /\ calls[p].result = <<12700>>
        /\ \E c \in ListDefault(containers) :
              "component" \notin DOMAIN c.labels /\ c.CpuQuota = 150000
        /\ \E c \in ListDefault(containers) :
              "component" \in DOMAIN c.labels /\ c.CpuQuota = 150000
        /\ \E c \in ListDefault(containers) : c.CpuPeriod = 0

\* The MiB the containers of S are limited to.
RECURSIVE LimitsMiB(_)
LimitsMiB(S) ==
    IF S = {} THEN 0
    ELSE LET c == CHOOSE d \in S : TRUE
         IN  c.Memory \div 1048576 + LimitsMiB(S \ {c})

\* C12: free_memory() is in MiB: the host's memory in MiB x
\* memory_overallocation - 500 - the limits, in MiB, of the listed
\* containers; so a launch that went well of a profile of ram_mb = R lowers
\* free_memory() by exactly R.
C12_FreeMemoryMiB ==
    /\ \A p \in FreeCalls("free_memory") :
          calls[p].result =
              <<(config.MemTotal \div 1048576) * config.memory_overallocation - 500
                - LimitsMiB(ListDefault(containers))>>
    /\ \A p \in FreeCalls("_start") :
          FreeMemory(config, calls[p].before) - FreeMemory(config, containers)
              = profiles[calls[p].svc].ram_mb

----------------------------------------------------------------------------
(* What is claimed of calls that cross. *)

\* The calls set_target(s, t) made alone right after two calls
\* set_target(s, t) that crossed.
Retries == {p \in SetTargetCalls : calls[p].prev # <<>>}

C13_BothKilled ==
    \E p \in Retries :
        LET c == calls[p]
        IN  /\ c.pc = "returned" /\ c.target = 1
            /\ c.prev[1].saw = {2} /\ c.prev[1].killed = {1}
            /\ c.prev[1].live = 0
            /\ Cardinality(c.launched) = 1

----------------------------------------------------------------------------
(* What is claimed of the names, of a caller that makes one call at a time. *)

\* C14: with add_profile and set_target called one at a time, and
\* containers crashing, exiting and being pruned between the calls, no two
\* containers on the host have the same name, and docker never rejects a
\* launch because the name chosen for it is in use.
C14_NoNameClash ==
    /\ \A c, d \in containers : c.name = d.name => c = d
    /\ \A p \in Callers : calls[p].cause # <<APIError("name in use")>>

\* A set_target has launched beside an exited instance that still held its
\* name when the name was chosen.
C14_Witness ==
    \E p \in SetTargetCalls :
        LET c == calls[p]
        IN  /\ c.pc = "returned" /\ c.launched # {}
            /\ \E d \in Labelled(c.before, c.svc) :
                  /\ d.status = "exited"
                  /\ \E e \in containers : e.id \in c.launched /\ e.name # d.name
                  /\ \A e \in containers : e.name # d.name

----------------------------------------------------------------------------
(* What is claimed of the caller that keeps asking. *)

NoRuntimeFailure == \A p \in Callers : ~RuntimeFailure(p)

TargetHeld ==
    \E p \in SetTargetCalls :
        Cardinality(LiveIds(containers, calls[p].svc)) = calls[p].target

\* C15: when the caller keeps calling set_target(s, t) with the same t and
\* the calls to docker fail only finitely often, the live count of s is
\* eventually t.
C15_SelfCorrects ==
    (<>[][NoRuntimeFailure]_vars) => [](SetTargetCalls # {} => <>TargetHeld)

\* The same, of the controllers that were given a label map.
C15_SelfCorrectsLabelled ==
    (<>[][NoRuntimeFailure]_vars) =>
        []((SetTargetCalls # {} /\ labels # {}) => <>TargetHeld)

\* After a set_target that failed with k of its delta launches made, the
\* next set_target(s, t) that returns has launched delta - k.
C15_LaunchesTheRest ==
    \A p \in SetTargetCalls :
        LET c == calls[p]
        IN  (c.prev # <<>> /\ c.pc = "returned" /\ c.prev[1].pc = "raised"
             /\ c.prev[1].delta > 0)
                => Cardinality(c.launched) = c.prev[1].delta - c.prev[1].launched

C15_LaunchesTheRestWitness ==
    \E p \in SetTargetCalls :
        LET c == calls[p]
        IN  /\ c.prev # <<>> /\ c.pc = "returned" /\ c.prev[1].pc = "raised"
            /\ c.prev[1].delta = 3 /\ c.prev[1].launched = 1
            /\ Cardinality(c.launched) = 2

----------------------------------------------------------------------------
(* What is claimed of a scale-down on a host that does not hold still. *)

\* C16: in a scale-down, whatever the containers of s do between the
\* listing that gives delta and the listing the kills are taken from,
\* set_target(s, t) issues at most (live at the second listing) - t kills,
\* and so never takes the live count below t by its own kills.
C16_KillsBounded ==
    \A p \in SetTargetCalls :
        LET c == calls[p]
            room == Cardinality(c.atkill) - c.target
        IN  (c.delta < 0 /\ c.pc \notin {"get_target", "list_kill"})
                => Cardinality(c.killed) + Len(c.todo) <= IF room > 0 THEN room ELSE 0

----------------------------------------------------------------------------
(* What is claimed of the services a call is not about. *)

\* C17: set_target(s, t) kills no live container of another service and
\* launches none for another service: for every service r other than s the
\* live instances of r are the same before, during and after the call.
C17_OtherServicesUntouched ==
    \A p \in SetTargetCalls :
        LET c == calls[p]
        IN  /\ \A r \in Services \ {c.svc} :
                  LiveIds(containers, r) = LiveIds(c.before, r)
            /\ c.killed \subseteq LiveIds(c.before, c.svc)
            /\ \A d \in containers : d.id \in c.launched => HasLabel(d, "component", c.svc)

\* A set_target has killed an instance of its service while the other
\* service had an instance live.
C17_Witness ==
    \E p \in SetTargetCalls :
        LET c == calls[p]
        IN  /\ c.pc = "returned"
            /\ c.killed # {}
            /\ \E r \in Services \ {c.svc} : LiveIds(containers, r) # {}

----------------------------------------------------------------------------
(* What is claimed of the labels of a launch. *)

\* The label map the controller was given; none with the default argument.
ConfiguredLabels == IF labels = {} THEN <<>> ELSE CHOOSE d \in labels : TRUE

\* C18: a container launched by _start(s) carries component=s and, beside
\* it, the configured label map (component=s wins over a 'component' of
\* the map), so that get_target(s) counts it; and this for every way of
\* constructing the controller: with the default label argument too a
\* launch is made and does not fail for the lack of a label map.
C18_LaunchLabelled ==
    \A p \in Callers :
        LET c == calls[p]
        IN  /\ \A d \in containers : d.id \in c.launched =>
                  /\ HasLabel(d, "component", c.svc)
                  /\ \A k \in DOMAIN ConfiguredLabels \ {"component"} :
                        HasLabel(d, k, ConfiguredLabels[k])
                  /\ d \in ListByLabel(c.svc) /\ Classify(d.status) = "count"
            /\ c.cause # <<TypeError>>

----------------------------------------------------------------------------
(* What is claimed of SignatureClient. *)

\* The status an update of the stored signature `old` with `rule` is to be
\* saved with.
StatusToSave(old, rule) ==
    IF /\ old.state_change_user # <<>>
       /\ old.state_change_user # <<"update_service_account">>
       /\ rule.status = "DEPLOYED" /\ old.status # "DEPLOYED"
    THEN old.status ELSE rule.status

\* The signature now stored under key is the update of `old` with `rule`.
UpdatedFrom(key, old, rule) ==
    /\ key \in DOMAIN signatures
    /\ signatures[key].status = StatusToSave(old, rule)
    /\ signatures[key].state_change_date = old.state_change_date
    /\ signatures[key].state_change_user = old.state_change_user
    /\ signatures[key].stats = old.stats

\* The rule for add_update: nothing written and no operation reported for
\* the data already stored, the update otherwise.
AddUpdateKeepsState ==
    \A p \in Callers :
        LET c == calls[p]
        IN  (c.op = "add_update" /\ c.pc = "returned" /\ c.key \in DOMAIN c.stored) =>
                IF c.stored[c.key].data = c.data[1].data
                THEN signatures = c.stored /\ c.result[1].op = <<>>
                ELSE UpdatedFrom(c.key, c.stored[c.key], c.data[1])

\* The rule for add_update_many: every rule that is written over a stored
\* signature (the last of its id in the batch, and not skipped) updates it.
AddUpdateManyKeepsState ==
    \A p \in Callers :
        LET c == calls[p]
        IN  (c.op = "add_update_many" /\ c.pc = "returned") =>
                \A i \in 1..Len(c.data) :
                    LET key == SigKey(c.data[i])
                    IN  (/\ key \in DOMAIN c.stored
                         /\ key \notin c.result[1].skipped
                         /\ \A j \in (i + 1)..Len(c.data) : SigKey(c.data[j]) # key)
                            => UpdatedFrom(key, c.stored[key], c.data[i])

\* C19: an update of a stored signature whose state a user changed last is
\* saved with the stored status when it comes as DEPLOYED and the stored
\* status is another; every update keeps the stored state_change_date,
\* state_change_user and stats; add_update and add_update_many both do so,
\* and add_update writes nothing and reports no operation for stored data.
C19_UpdateKeepsState == AddUpdateKeepsState /\ AddUpdateManyKeepsState

\* C20: with dedup_name=True and a store that began without duplicates, no
\* two stored signatures of a type and source have one name under two ids.
C20_NamesUnique ==
    \A j, k \in DOMAIN signatures :
        (/\ signatures[j].type = signatures[k].type
         /\ signatures[j].source = signatures[k].source
         /\ signatures[j].name = signatures[k].name) => j = k

====
